---- MODULE Spec2Model ----
(***************************************************************************)
(* Model of streamlit_app.py: a Streamlit dashboard over an uploaded CSV   *)
(* of merchant card transactions.  Every user interaction re-runs the      *)
(* whole script top to bottom; the only data that outlives a run is the    *)
(* uploaded file, the widget values and the st.cache_data memo of          *)
(* load_data.                                                              *)
(*                                                                         *)
(* Representation.  A text is a sequence of one-character strings; the     *)
(* empty text is an empty CSV cell, which pandas reads as NaN.  A number   *)
(* is a one-element sequence <<v>> holding the value in tenths (2.5 is     *)
(* <<25>>); NaN is the empty sequence.  Slider values are Python ints and  *)
(* are kept in whole units.                                                *)
(***************************************************************************)
EXTENDS Integers, Sequences, FiniteSets, TLC

VARIABLES
    uploaded_file,   \* the file in the upload control, or NoFile
    cache,           \* st.cache_data memo of load_data: file -> DataFrame
    status,          \* how the last run ended: "init", "stopped", "error", "done"
    error,           \* the exception that ended the run, "" if none
    prompt,          \* the upload warning is on screen
    executed,        \* the steps of the script the last run entered
    df,              \* the run's Dataset, NoData when the run bound none
    metrics,         \* the key metrics, NoData when not computed
    criteria,        \* the widget values of the run, NoData when not rendered
    filtered_df,     \* the filtered view, NoData when not computed
    merchant_stats,  \* tab 1 group reduction
    device_stats,    \* tab 2 group reduction
    card_stats,      \* tab 3 top cards
    n_records,       \* the count in "Displaying N records"
    csv              \* the export offered by the download button

vars == <<uploaded_file, cache, status, error, prompt, executed, df, metrics,
          criteria, filtered_df, merchant_stats, device_stats, card_stats,
          n_records, csv>>

----------------------------------------------------------------------------
(* Texts and numbers *)

NaN == <<>>

NoFile == [columns |-> <<>>, rows |-> <<>>, none |-> TRUE]

NoData == [none |-> TRUE]

IsNaN(x) == x = NaN

Digits == <<"0", "1", "2", "3", "4", "5", "6", "7", "8", "9">>

Upper == {"A", "B", "C", "D", "E", "F", "G", "H", "I", "J", "K", "L", "M",
          "N", "O", "P", "Q", "R", "S", "T", "U", "V", "W", "X", "Y", "Z"}

\* The characters of the texts of the model, in code-point order.
Alphabet == <<" ", "*", "-", ".", "0", "1", "2", "3", "4", "5", "6", "7", "8",
              "9", "A", "N", "Y", "_", "a", "b", "d", "e", "o", "p", "s", "w">>

IsDigit(c) == \E i \in 1..Len(Digits) : Digits[i] = c

DigitVal(c) == (CHOOSE i \in 1..Len(Digits) : Digits[i] = c) - 1

\* \w of the regular expression: letters, digits and the underscore.
IsWordChar(c) == c \notin {" ", "*", "-", "."}

CharRank(c) == CHOOSE i \in 1..Len(Alphabet) : Alphabet[i] = c

RECURSIVE TextLess(_, _)
\* Python's string order: lexicographic by code point.
TextLess(a, b) ==
    IF b = <<>> THEN FALSE
    ELSE IF a = <<>> THEN TRUE
    ELSE IF a[1] = b[1] THEN TextLess(Tail(a), Tail(b))
    ELSE CharRank(a[1]) < CharRank(b[1])

AllDigits(s) == s # <<>> /\ \A i \in 1..Len(s) : IsDigit(s[i])

RECURSIVE ParseNat(_)
ParseNat(s) ==
    IF s = <<>> THEN 0
    ELSE 10 * ParseNat(SubSeq(s, 1, Len(s) - 1)) + DigitVal(s[Len(s)])

\* pd.to_numeric(..., errors='coerce') on one cell: the number the text
\* denotes, NaN when it denotes none.  One decimal place is parsed, the
\* resolution of the representation.
to_numeric(s) ==
    LET neg  == s # <<>> /\ s[1] = "-"
        body == IF neg THEN Tail(s) ELSE s
        sign == IF neg THEN -1 ELSE 1
        dots == {i \in 1..Len(body) : body[i] = "."}
    IN  IF dots = {}
        THEN IF AllDigits(body) THEN <<sign * 10 * ParseNat(body)>> ELSE NaN
        ELSE IF Cardinality(dots) = 1
        THEN LET p    == CHOOSE i \in dots : TRUE
                 ip   == SubSeq(body, 1, p - 1)
                 fp   == SubSeq(body, p + 1, Len(body))
                 ok   == /\ ip = <<>> \/ AllDigits(ip)
                         /\ fp = <<>> \/ (AllDigits(fp) /\ Len(fp) = 1)
                         /\ ip # <<>> \/ fp # <<>>
             IN  IF ok
                 THEN <<sign * (10 * ParseNat(ip)
                                + (IF fp = <<>> THEN 0 ELSE DigitVal(fp[1])))>>
                 ELSE NaN
        ELSE NaN

\* Python's int() on a float: truncation toward zero, in whole units.
PyInt(x) == IF x[1] >= 0 THEN x[1] \div 10 ELSE -((-x[1]) \div 10)

\* A slider value (whole units) as a number.
Whole(n) == <<10 * n>>

\* r'(\b[A-Z]+\b)$' searched in a merchant name: the run of capitals that
\* ends the name, when a word boundary precedes it.
ExtractLocation(s) ==
    LET starts == {i \in 1..Len(s) : \A j \in i..Len(s) : s[j] \in Upper}
    IN  IF starts = {} THEN NaN
        ELSE LET i == CHOOSE k \in starts : \A m \in starts : k <= m
             IN  IF i = 1 \/ ~IsWordChar(s[i - 1])
                 THEN SubSeq(s, i, Len(s))
                 ELSE NaN

RECURSIVE NatToText(_)
NatToText(n) ==
    IF n < 10 THEN <<Digits[n + 1]>>
    ELSE NatToText(n \div 10) \o <<Digits[(n % 10) + 1]>>

\* How to_csv writes one numeric cell: nothing for NaN, the digits for an
\* int64 column, digits '.' digit for a float64 column.
FormatNum(x, dtype) ==
    IF IsNaN(x) THEN <<>>
    ELSE LET a    == IF x[1] < 0 THEN -x[1] ELSE x[1]
             sgn  == IF x[1] < 0 THEN <<"-">> ELSE <<>>
         IN  IF dtype = "int64"
             THEN sgn \o NatToText(a \div 10)
             ELSE sgn \o NatToText(a \div 10) \o <<".">> \o NatToText(a % 10)

----------------------------------------------------------------------------
(* Series reductions, as pandas computes them *)

RECURSIVE SumSeq(_)
SumSeq(s) == IF s = <<>> THEN 0 ELSE s[1] + SumSeq(Tail(s))

NotNaN(col) == SelectSeq(col, LAMBDA x : ~IsNaN(x))

\* Series.sum(): NaN skipped, 0 for an empty or all-NaN series.
SeriesSum(col) ==
    LET vals == NotNaN(col)
    IN  <<SumSeq([i \in 1..Len(vals) |-> vals[i][1]])>>

\* Series.max() / Series.min(): NaN skipped, NaN when nothing is left.
SeriesMax(col) ==
    LET vals == NotNaN(col)
    IN  IF vals = <<>> THEN NaN
        ELSE CHOOSE x \in {vals[i] : i \in 1..Len(vals)} :
                 \A j \in 1..Len(vals) : vals[j][1] <= x[1]

SeriesMin(col) ==
    LET vals == NotNaN(col)
    IN  IF vals = <<>> THEN NaN
        ELSE CHOOSE x \in {vals[i] : i \in 1..Len(vals)} :
                 \A j \in 1..Len(vals) : x[1] <= vals[j][1]

\* Series.nunique(): the distinct values, NaN not counted.
SeriesNUnique(col) == Cardinality({col[i] : i \in 1..Len(col)} \ {NaN})

\* Series.unique(): the values a multiselect offers.
SeriesUnique(col) == {col[i] : i \in 1..Len(col)}

Column(frame, name) == [i \in 1..Len(frame.rows) |-> frame.rows[i].cells[name]]

RECURSIVE SortTexts(_)
\* The keys of a groupby, which sorts them.
SortTexts(S) ==
    IF S = {} THEN <<>>
    ELSE LET m == CHOOSE x \in S : \A y \in S : y = x \/ TextLess(x, y)
         IN  <<m>> \o SortTexts(S \ {m})

GroupKeys(frame, by) == SortTexts(SeriesUnique(Column(frame, by)) \ {NaN})

GroupRows(frame, by, key) == SelectSeq(frame.rows, LAMBDA r : r.cells[by] = key)

\* frame.groupby(by)[measure].sum(), one entry per key in key order.
GroupSum(frame, by, measure) ==
    LET keys == GroupKeys(frame, by)
    IN  [g \in 1..Len(keys) |->
            LET rs == GroupRows(frame, by, keys[g])
            IN  [key |-> keys[g],
                 sum |-> SeriesSum([i \in 1..Len(rs) |-> rs[i].cells[measure]])]]

\* Series.idxmax(): the first key holding the largest value.
IdxMax(groups) ==
    LET i == CHOOSE k \in 1..Len(groups) :
                 /\ \A j \in 1..Len(groups) : groups[j].sum[1] <= groups[k].sum[1]
                 /\ \A j \in 1..(k - 1) : groups[j].sum[1] < groups[k].sum[1]
    IN  groups[i].key

----------------------------------------------------------------------------
(* The script, step by step.  A step that raises ends the run. *)

Ok(v) == [ok |-> TRUE, value |-> v]

Raise(e) == [ok |-> FALSE, error |-> e]

\* pd.read_csv: every row gets its position as index label; the cells are
\* still the texts of the file.
read_csv(file) ==
    [columns |-> file.columns,
     rows    |-> [i \in 1..Len(file.rows) |->
                     [index |-> i - 1, cells |-> file.rows[i]]]]

HasColumn(frame, name) == \E i \in 1..Len(frame.columns) : frame.columns[i] = name

\* df[name] = values: an existing column is overwritten where it stands, a
\* new one is appended.
SetColumn(frame, name, values) ==
    [columns |-> IF HasColumn(frame, name) THEN frame.columns
                 ELSE Append(frame.columns, name),
     rows    |-> [i \in 1..Len(frame.rows) |->
                     [index |-> frame.rows[i].index,
                      cells |-> [c \in DOMAIN frame.rows[i].cells \cup {name} |->
                                    IF c = name THEN values[i]
                                    ELSE frame.rows[i].cells[c]]]]]

\* load_data: df[col] on a column the file lacks raises KeyError, first for
\* 'occurrences', then for 'total_amount', then for 'merchant_name'.  No
\* other column is looked at.
load_data(file) ==
    LET raw == read_csv(file)
    IN  IF ~HasColumn(raw, "occurrences") THEN Raise("KeyError")
        ELSE LET d1 == SetColumn(raw, "occurrences",
                          [i \in 1..Len(raw.rows) |->
                              to_numeric(raw.rows[i].cells["occurrences"])])
        IN  IF ~HasColumn(d1, "total_amount") THEN Raise("KeyError")
        ELSE LET d2 == SetColumn(d1, "total_amount",
                          [i \in 1..Len(d1.rows) |->
                              to_numeric(d1.rows[i].cells["total_amount"])])
        IN  IF ~HasColumn(d2, "merchant_name") THEN Raise("KeyError")
        ELSE Ok(SetColumn(d2, "location",
                          [i \in 1..Len(d2.rows) |->
                              ExtractLocation(d2.rows[i].cells["merchant_name"])]))

\* Lines 36-40.  idxmax of an empty series raises ValueError.
key_metrics(frame) ==
    LET by_merchant == GroupSum(frame, "merchant_name", "total_amount")
    IN  IF by_merchant = <<>> THEN Raise("ValueError")
        ELSE IF ~HasColumn(frame, "masked_card_no") THEN Raise("KeyError")
        ELSE Ok([total_transactions |-> SeriesSum(Column(frame, "occurrences")),
                 total_amount       |-> SeriesSum(Column(frame, "total_amount")),
                 max_transaction    |-> SeriesMax(Column(frame, "total_amount")),
                 top_merchant       |-> IdxMax(by_merchant),
                 unique_cards       |-> SeriesNUnique(Column(frame, "masked_card_no"))])

\* Lines 50-59: what each widget is built from.  int() of NaN raises
\* ValueError.
widget_options(frame) ==
    IF ~HasColumn(frame, "device_name") THEN Raise("KeyError")
    ELSE LET lo == SeriesMin(Column(frame, "total_amount"))
             hi == SeriesMax(Column(frame, "total_amount"))
             mx == SeriesMax(Column(frame, "occurrences"))
         IN  IF IsNaN(lo) \/ IsNaN(hi) \/ IsNaN(mx) THEN Raise("ValueError")
             ELSE Ok([merchants     |-> SeriesUnique(Column(frame, "merchant_name")),
                      devices       |-> SeriesUnique(Column(frame, "device_name")),
                      amount_min    |-> PyInt(lo),
                      amount_max    |-> PyInt(hi),
                      occurrences_max |-> PyInt(mx)])

\* The value every widget starts from: nothing selected, the whole slider
\* range, a minimum of 1.
initial_criteria(opts) ==
    [selected_merchant |-> {},
     selected_device   |-> {},
     amount_range      |-> <<opts.amount_min, opts.amount_max>>,
     occurences_filter |-> 1,
     options           |-> opts]

\* A widget keeps the value the user gave it for as long as it is built
\* from the same arguments; otherwise it starts from its initial value.
resolve_criteria(opts, prev) ==
    LET init == initial_criteria(opts)
    IN  IF prev = NoData THEN init
        ELSE [selected_merchant |->
                  IF prev.options.merchants = opts.merchants
                  THEN prev.selected_merchant ELSE init.selected_merchant,
              selected_device |->
                  IF prev.options.devices = opts.devices
                  THEN prev.selected_device ELSE init.selected_device,
              amount_range |->
                  IF /\ prev.options.amount_min = opts.amount_min
                     /\ prev.options.amount_max = opts.amount_max
                  THEN prev.amount_range ELSE init.amount_range,
              occurences_filter |->
                  IF prev.options.occurrences_max = opts.occurrences_max
                  THEN prev.occurences_filter ELSE init.occurences_filter,
              options |-> opts]

\* between with inclusive='left': the upper end left out.
between_left(x, lo, hi) == ~IsNaN(x) /\ Whole(lo)[1] <= x[1] /\ x[1] < Whole(hi)[1]

\* Series.between(lo, hi): both ends included, NaN is never between.
between(x, lo, hi) == ~IsNaN(x) /\ Whole(lo)[1] <= x[1] /\ x[1] <= Whole(hi)[1]

\* filtered_df['occurrences'] >= occurences_filter: false for NaN.
at_least(x, k) == ~IsNaN(x) /\ x[1] >= Whole(k)[1]

\* A filter that narrows the view of the run before instead of the Dataset.
copy_source_stale(frame, previous_view) ==
    IF previous_view = NoData THEN frame ELSE previous_view

\* Line 62: the frame the filter starts from, df.copy().
copy_source(frame, previous_view) == frame

\* Lines 62-71.
filter_rows(frame, previous_view, crit) ==
    LET base == copy_source(frame, previous_view)
        m1 == SelectSeq(base.rows, LAMBDA r :
                  /\ between(r.cells["total_amount"],
                             crit.amount_range[1], crit.amount_range[2])
                  /\ at_least(r.cells["occurrences"], crit.occurences_filter))
        m2 == IF crit.selected_merchant # {}
              THEN SelectSeq(m1, LAMBDA r :
                       r.cells["merchant_name"] \in crit.selected_merchant)
              ELSE m1
        m3 == IF crit.selected_device # {}
              THEN SelectSeq(m2, LAMBDA r :
                       r.cells["device_name"] \in crit.selected_device)
              ELSE m2
    IN  [columns |-> base.columns, rows |-> m3]

\* groupby(by).agg(...).reset_index(): per key, in key order, the sum of
\* occurrences and the sum of total_amount; avg_amount is total_amount
\* over the n_amount amounts that are not NaN.
group_stats(view, by) ==
    LET keys == GroupKeys(view, by)
    IN  [g \in 1..Len(keys) |->
            LET rs  == GroupRows(view, by, keys[g])
                occ == [i \in 1..Len(rs) |-> rs[i].cells["occurrences"]]
                amt == [i \in 1..Len(rs) |-> rs[i].cells["total_amount"]]
            IN  [key                |-> keys[g],
                 total_transactions |-> SeriesSum(occ),
                 total_amount       |-> SeriesSum(amt),
                 n_amount           |-> Len(NotNaN(amt))]]

\* The N of nlargest on line 142.
TopN == 15

RemoveAt(s, i) == SubSeq(s, 1, i - 1) \o SubSeq(s, i + 1, Len(s))

\* keep='last': the last of the groups with the largest total_amount.
next_largest_last(groups) ==
    CHOOSE k \in 1..Len(groups) :
        /\ \A j \in 1..Len(groups) :
               groups[j].total_amount[1] <= groups[k].total_amount[1]
        /\ \A j \in (k + 1)..Len(groups) :
               groups[j].total_amount[1] < groups[k].total_amount[1]

\* Which of the remaining groups nlargest takes next: the first of those
\* with the largest total_amount (keep='first').
next_largest(groups) ==
    CHOOSE k \in 1..Len(groups) :
        /\ \A j \in 1..Len(groups) :
               groups[j].total_amount[1] <= groups[k].total_amount[1]
        /\ \A j \in 1..(k - 1) :
               groups[j].total_amount[1] < groups[k].total_amount[1]

RECURSIVE nlargest(_, _)
\* DataFrame.nlargest(n, 'total_spent').
nlargest(n, groups) ==
    IF n = 0 \/ groups = <<>> THEN <<>>
    ELSE LET k == next_largest(groups)
         IN  <<groups[k]>> \o nlargest(n - 1, RemoveAt(groups, k))

\* Lines 139-142.
top_cards(view) == nlargest(TopN, group_stats(view, "masked_card_no"))

NumericColumns == {"occurrences", "total_amount"}

\* The dtype to_numeric leaves a column with: int64 when every cell is a
\* whole number, float64 otherwise.
ColumnDType(frame, name) ==
    IF \A i \in 1..Len(frame.rows) :
           /\ ~IsNaN(frame.rows[i].cells[name])
           /\ frame.rows[i].cells[name][1] % 10 = 0
    THEN "int64" ELSE "float64"

\* Line 193: to_csv(index=False) writes every column of the view and no
\* index; the numbers are written in their column's dtype.
to_csv(view, frame) ==
    LET dtype == [c \in NumericColumns |-> ColumnDType(frame, c)]
    IN  [columns |-> view.columns,
         rows    |-> [i \in 1..Len(view.rows) |->
                         [c \in DOMAIN view.rows[i].cells |->
                             IF c \in NumericColumns
                             THEN FormatNum(view.rows[i].cells[c], dtype[c])
                             ELSE view.rows[i].cells[c]]]]

\* The warning without the st.stop() after it.
upload_prompt_no_stop(file) == [prompt |-> file = NoFile, stop |-> FALSE]

\* Lines 26-30: without a file the script shows the warning and st.stop()
\* ends the run.
upload_prompt(file) ==
    IF file = NoFile THEN [prompt |-> TRUE, stop |-> TRUE]
    ELSE [prompt |-> FALSE, stop |-> FALSE]

\* @st.cache_data: load_data runs once per file; later calls get a copy of
\* what it returned.  A call that raised is not remembered.
cached_load(file, memo) ==
    IF file \in DOMAIN memo THEN Ok(memo[file]) ELSE load_data(file)

Remember(file, memo, loaded) ==
    IF loaded.ok
    THEN [f \in DOMAIN memo \cup {file} |-> IF f = file THEN loaded.value ELSE memo[f]]
    ELSE memo

\* What a run leaves when it ends before anything is computed.
Blank(memo) ==
    [status |-> "init", error |-> "", prompt |-> FALSE, executed |-> {},
     df |-> NoData, metrics |-> NoData, criteria |-> NoData,
     filtered_df |-> NoData, merchant_stats |-> NoData,
     device_stats |-> NoData, card_stats |-> NoData, n_records |-> NoData,
     csv |-> NoData, cache |-> memo]

\* Lines 61-199 for a loaded frame and rendered widgets.
RunTabs(out, frame, crit, previous_view) ==
    LET view == filter_rows(frame, previous_view, crit)
    IN  [out EXCEPT !.status = "done",
                    !.executed = @ \cup {"filter", "aggregations", "export"},
                    !.criteria = crit,
                    !.filtered_df = view,
                    !.merchant_stats = group_stats(view, "merchant_name"),
                    !.device_stats = group_stats(view, "device_name"),
                    !.card_stats = top_cards(view),
                    !.n_records = Len(view.rows),
                    !.csv = to_csv(view, frame)]

\* Lines 32-59 onwards for a loaded frame.
RunLoaded(out, frame, prev_criteria, previous_view) ==
    LET km   == key_metrics(frame)
        out1 == [out EXCEPT !.df = frame, !.executed = @ \cup {"metrics"}]
    IN  IF ~km.ok THEN [out1 EXCEPT !.status = "error", !.error = km.error]
        ELSE LET wo   == widget_options(frame)
                 out2 == [out1 EXCEPT !.metrics = km.value,
                                      !.executed = @ \cup {"filters"}]
        IN  IF ~wo.ok THEN [out2 EXCEPT !.status = "error", !.error = wo.error]
            ELSE RunTabs(out2, frame, resolve_criteria(wo.value, prev_criteria),
                         previous_view)

\* One run of the script, top to bottom.  A name the run never bound (df
\* after a missing stop) raises NameError at its first use, line 36.
Run(file, memo, prev_criteria, previous_view) ==
    LET up   == upload_prompt(file)
        out0 == [Blank(memo) EXCEPT !.prompt = up.prompt]
    IN  IF up.stop THEN [out0 EXCEPT !.status = "stopped"]
        ELSE IF file = NoFile
        THEN [out0 EXCEPT !.status = "error", !.error = "NameError",
                          !.executed = {"metrics"}]
        ELSE LET loaded == cached_load(file, memo)
                 out1   == [out0 EXCEPT !.executed = {"load_data"},
                                        !.cache = Remember(file, memo, loaded)]
             IN  IF ~loaded.ok
                 THEN [out1 EXCEPT !.status = "error", !.error = loaded.error]
                 ELSE RunLoaded(out1, loaded.value, prev_criteria, previous_view)

----------------------------------------------------------------------------
(* The files a user may upload *)

AllColumns == <<"merchant_name", "device_name", "masked_card_no",
                "occurrences", "total_amount">>

Record(m, d, c, o, a) ==
    [merchant_name |-> m, device_name |-> d, masked_card_no |-> c,
     occurrences |-> o, total_amount |-> a]

\* The records the small files are cut from: two merchants, two devices,
\* two cards, a fractional amount with an occurrence count of 0, and an
\* amount that is no number.
MasterRows ==
    << Record(<<"A">>, <<"p", "o", "s">>, <<"4", "1", "*">>, <<"1">>, <<"1">>),
       Record(<<"a", "b", " ", "N", "Y">>, <<"p", "o", "s">>, <<"4", "2", "*">>,
              <<"2">>, <<"2">>),
       Record(<<"A">>, <<"w", "e", "b">>, <<"4", "2", "*">>, <<"0">>,
              <<"2", ".", "5">>),
       Record(<<"a", "b", " ", "N", "Y">>, <<"w", "e", "b">>, <<"4", "1", "*">>,
              <<"2">>, <<"b", "a", "d">>) >>

WithoutColumn(columns, name) == SelectSeq(columns, LAMBDA c : c # name)

DropField(rec, name) == [c \in DOMAIN rec \ {name} |-> rec[c]]

\* Every run of consecutive master records, the empty one included, with
\* all five columns.
FullFiles ==
    { [columns |-> AllColumns, rows |-> SubSeq(MasterRows, i, j)] :
        i \in 1..(Len(MasterRows) + 1), j \in 0..Len(MasterRows) }

\* The same records in a file that lacks one of the five columns.
DeficientFiles ==
    { [columns |-> WithoutColumn(AllColumns, AllColumns[k]),
       rows    |-> [i \in 1..Len(MasterRows) |->
                       DropField(MasterRows[i], AllColumns[k])]] :
        k \in 1..Len(AllColumns) }

Files == FullFiles \cup DeficientFiles

\* How many files the memo may hold before the session stops taking new
\* ones.
MaxCached == 2

----------------------------------------------------------------------------
(* The session: every interaction re-runs the script *)

Rerun(file, prev_criteria) ==
    \E out \in {Run(file, cache, prev_criteria, filtered_df)} :
        /\ uploaded_file' = file
        /\ cache' = out.cache
        /\ status' = out.status
        /\ error' = out.error
        /\ prompt' = out.prompt
        /\ executed' = out.executed
        /\ df' = out.df
        /\ metrics' = out.metrics
        /\ criteria' = out.criteria
        /\ filtered_df' = out.filtered_df
        /\ merchant_stats' = out.merchant_stats
        /\ device_stats' = out.device_stats
        /\ card_stats' = out.card_stats
        /\ n_records' = out.n_records
        /\ csv' = out.csv

\* The first run of a session: nothing uploaded, nothing memoized.
Init ==
    \E out \in {Run(NoFile, <<>>, NoData, NoData)} :
        /\ uploaded_file = NoFile
        /\ cache = out.cache
        /\ status = out.status
        /\ error = out.error
        /\ prompt = out.prompt
        /\ executed = out.executed
        /\ df = out.df
        /\ metrics = out.metrics
        /\ criteria = out.criteria
        /\ filtered_df = out.filtered_df
        /\ merchant_stats = out.merchant_stats
        /\ device_stats = out.device_stats
        /\ card_stats = out.card_stats
        /\ n_records = out.n_records
        /\ csv = out.csv

\* The user puts a file into the upload control.
Upload(file) ==
    /\ file # uploaded_file
    /\ file \in DOMAIN cache \/ Cardinality(DOMAIN cache) < MaxCached
    /\ Rerun(file, criteria)

\* The user removes the file from the upload control.
RemoveFile ==
    /\ uploaded_file # NoFile
    /\ Rerun(NoFile, criteria)

SelectMerchants(S) ==
    /\ status = "done"
    /\ S \subseteq criteria.options.merchants
    /\ S # criteria.selected_merchant
    /\ Rerun(uploaded_file, [criteria EXCEPT !.selected_merchant = S])

SelectDevices(S) ==
    /\ status = "done"
    /\ S \subseteq criteria.options.devices
    /\ S # criteria.selected_device
    /\ Rerun(uploaded_file, [criteria EXCEPT !.selected_device = S])

SetAmountRange(lo, hi) ==
    /\ status = "done"
    /\ lo <= hi
    /\ <<lo, hi>> # criteria.amount_range
    /\ Rerun(uploaded_file, [criteria EXCEPT !.amount_range = <<lo, hi>>])

SetMinOccurrences(k) ==
    /\ status = "done"
    /\ k # criteria.occurences_filter
    /\ Rerun(uploaded_file, [criteria EXCEPT !.occurences_filter = k])

\* Lines 56-59: the slider runs from 1 to the largest occurrence count; a
\* slider whose max_value lies below its value stretches to hold the value.
occurrence_choices(opts) ==
    IF opts.occurrences_max < 1 THEN opts.occurrences_max..1
    ELSE 1..opts.occurrences_max

FilterChange ==
    \/ \E S \in SUBSET criteria.options.merchants : SelectMerchants(S)
    \/ \E S \in SUBSET criteria.options.devices : SelectDevices(S)
    \/ \E lo, hi \in criteria.options.amount_min..criteria.options.amount_max :
           SetAmountRange(lo, hi)
    \/ \E k \in occurrence_choices(criteria.options) : SetMinOccurrences(k)

Next ==
    \/ \E file \in Files : Upload(file)
    \/ RemoveFile
    \/ status = "done" /\ FilterChange

Spec == Init /\ [][Next]_vars

----------------------------------------------------------------------------
(* Files with more cards than the top-cards chart shows *)

\* The most rows a many-card file has.
MaxCardRows == 17

CardName(k) == <<"4", Digits[(k \div 10) + 1], Digits[(k % 10) + 1], "*">>

\* n records of one merchant on one device; record i spends (i * step) %
\* mod; the cards are all different but for the last record, which is on
\* the card of the first.
CardFile(n, step, mod) ==
    [columns |-> AllColumns,
     rows    |-> [i \in 1..n |->
                     Record(<<"A">>, <<"p", "o", "s">>,
                            CardName(((i - 1) % (n - 1)) + 1),
                            <<"1">>, NatToText((i * step) % mod))]]

CardFiles ==
    { CardFile(n, step, mod) :
        n \in {TopN, MaxCardRows}, step \in {0, 1}, mod \in {2, 3} }

NextCards ==
    \/ \E file \in CardFiles : Upload(file)
    \/ RemoveFile
    \/ status = "done" /\ FilterChange

SpecCards == Init /\ [][NextCards]_vars

----------------------------------------------------------------------------
(* Properties *)

\* Every filter control stands at the value it starts from.
FiltersUntouched ==
    /\ criteria.selected_merchant = {}
    /\ criteria.selected_device = {}
    /\ criteria.amount_range =
           <<criteria.options.amount_min, criteria.options.amount_max>>
    /\ criteria.occurences_filter = 1

\* The row of the Dataset is in the filtered view.
InView(r) == \E j \in 1..Len(filtered_df.rows) : filtered_df.rows[j].index = r.index

\* The row passes every predicate but the amount range.
PassesOtherFilters(r) ==
    /\ ~IsNaN(r.cells["occurrences"])
    /\ r.cells["occurrences"][1] >= 10 * criteria.occurences_filter
    /\ criteria.selected_merchant # {} =>
           r.cells["merchant_name"] \in criteria.selected_merchant
    /\ criteria.selected_device # {} =>
           r.cells["device_name"] \in criteria.selected_device

\* The row's amount lies in the selected range, ends included.
InAmountRange(r) ==
    /\ ~IsNaN(r.cells["total_amount"])
    /\ 10 * criteria.amount_range[1] <= r.cells["total_amount"][1]
    /\ r.cells["total_amount"][1] <= 10 * criteria.amount_range[2]

\* C1: with every filter control at its initial value, the sum of
\* total_amount over the filtered view equals the sum over the Dataset.
C1_UntouchedFiltersKeepTotal ==
    (status = "done" /\ FiltersUntouched) =>
        SeriesSum(Column(filtered_df, "total_amount")) = metrics.total_amount

\* C2: a record whose amount is no number is loaded as a missing value,
\* stays out of the total and of its merchant's sum, and is still counted
\* in the number of records the dashboard reports.
C2_UnparsableAmountCounted ==
    status = "done" =>
        \A i \in 1..Len(df.rows) :
            LET r == df.rows[i]
            IN  (IsNaN(r.cells["total_amount"]) /\ PassesOtherFilters(r)) =>
                    /\ InView(r)
                    /\ n_records = Len(filtered_df.rows)
                    /\ metrics.total_amount =
                           SeriesSum(NotNaN(Column(df, "total_amount")))

\* C3: with no file uploaded the run shows the upload prompt and halts;
\* no metric, filter, aggregation or export step is entered by a run that
\* has no Dataset.
C3_NoFileHalts ==
    /\ uploaded_file = NoFile =>
           /\ status = "stopped"
           /\ prompt
           /\ executed = {}
    /\ executed \cap {"metrics", "filters", "filter", "aggregations", "export"} # {}
           => df # NoData
    /\ df = NoData =>
           /\ metrics = NoData
           /\ criteria = NoData
           /\ filtered_df = NoData
           /\ card_stats = NoData
           /\ csv = NoData

\* C3 witness: the file was removed after a Dataset had been loaded, and
\* the run stopped at the prompt.
C3_Witness ==
    /\ uploaded_file = NoFile
    /\ DOMAIN cache # {}
    /\ status = "stopped"
    /\ prompt

\* C4: a row is kept only if min <= total_amount <= max, and every row in
\* that range (ends included) that passes the other predicates is kept.
C4_AmountRangeInclusive ==
    status = "done" =>
        \A i \in 1..Len(df.rows) :
            LET r == df.rows[i]
            IN  /\ InView(r) => InAmountRange(r)
                /\ (InAmountRange(r) /\ PassesOtherFilters(r)) => InView(r)

\* C4 witness: a range other than the initial one, a kept row on its lower
\* end, a kept row on its upper end, and a row dropped for its amount alone.
C4_Witness ==
    /\ status = "done"
    /\ criteria.amount_range #
           <<criteria.options.amount_min, criteria.options.amount_max>>
    /\ \E i \in 1..Len(filtered_df.rows) :
           filtered_df.rows[i].cells["total_amount"][1] = 10 * criteria.amount_range[1]
    /\ \E i \in 1..Len(filtered_df.rows) :
           filtered_df.rows[i].cells["total_amount"][1] = 10 * criteria.amount_range[2]
    /\ \E i \in 1..Len(df.rows) :
           /\ PassesOtherFilters(df.rows[i])
           /\ ~IsNaN(df.rows[i].cells["total_amount"])
           /\ ~InView(df.rows[i])

\* C5: every filter predicate whose selection is empty or at its initial
\* value keeps every row of the Dataset.
C5_UntouchedFiltersKeepRows ==
    (status = "done" /\ FiltersUntouched) => filtered_df.rows = df.rows

ColumnSet(columns) == {columns[i] : i \in 1..Len(columns)}

MandatoryColumns ==
    {"merchant_name", "device_name", "masked_card_no", "occurrences", "total_amount"}

\* C6: a file that lacks one of the five mandatory columns fails in
\* load_data and yields no Dataset; a file with all five loads.
C6_MissingColumnFailsLoad ==
    uploaded_file # NoFile =>
        IF MandatoryColumns \subseteq ColumnSet(uploaded_file.columns)
        THEN df # NoData
        ELSE /\ df = NoData
             /\ status = "error"
             /\ executed = {"load_data"}

\* C7: a Dataset with no rows, or with no amount that is a number, and any
\* filter combination that leaves no row, give zero or empty results and
\* never an error.
C7_EmptyInputTolerated ==
    (uploaded_file # NoFile
        /\ MandatoryColumns \subseteq ColumnSet(uploaded_file.columns)) =>
        /\ status = "done"
        /\ filtered_df.rows = <<>> =>
               /\ merchant_stats = <<>>
               /\ device_stats = <<>>
               /\ card_stats = <<>>
               /\ n_records = 0

PositionOf(groups, key) == CHOOSE g \in 1..Len(groups) : groups[g].key = key

\* C8: the top cards are at most N = 15 card groups of the filtered view,
\* in descending order of their summed total_amount; every group left out
\* sums to no more than every group kept; groups with equal sums come in
\* group order.
C8_TopCards ==
    status = "done" =>
        LET groups == group_stats(filtered_df, "masked_card_no")
            kept   == {card_stats[i].key : i \in 1..Len(card_stats)}
        IN  /\ Len(card_stats) <= TopN
            /\ Cardinality(kept) = Len(card_stats)
            /\ \A i \in 1..Len(card_stats) :
                   \E g \in 1..Len(groups) : groups[g] = card_stats[i]
            /\ \A i, j \in 1..Len(card_stats) :
                   i < j =>
                       /\ card_stats[i].total_amount[1] >= card_stats[j].total_amount[1]
                       /\ card_stats[i].total_amount = card_stats[j].total_amount =>
                              PositionOf(groups, card_stats[i].key)
                                  < PositionOf(groups, card_stats[j].key)
            /\ \A g \in 1..Len(groups) :
                   groups[g].key \notin kept =>
                       \A i \in 1..Len(card_stats) :
                           groups[g].total_amount[1] <= card_stats[i].total_amount[1]

\* C8 witness: more than N card groups, N of them kept, two kept groups
\* with equal sums and two with different sums.
C8_Witness ==
    /\ status = "done"
    /\ Len(group_stats(filtered_df, "masked_card_no")) > TopN
    /\ Len(card_stats) = TopN
    /\ \E i, j \in 1..Len(card_stats) :
           i < j /\ card_stats[i].total_amount = card_stats[j].total_amount
    /\ \E i, j \in 1..Len(card_stats) :
           card_stats[i].total_amount # card_stats[j].total_amount

\* C9: the export holds exactly the rows of the filtered view and exactly
\* the columns of the uploaded file.
C9_ExportSchema ==
    status = "done" =>
        /\ Len(csv.rows) = Len(filtered_df.rows)
        /\ ColumnSet(csv.columns) = ColumnSet(uploaded_file.columns)

\* The view a first run of a new session computes for the file and the
\* criteria: no memo, no earlier view, no earlier widget values.
FreshView(file, crit) == Run(file, <<>>, crit, NoData).filtered_df

\* C10: no interaction modifies a loaded Dataset; after every interaction
\* the filtered view is a subsequence of the Dataset that the current
\* Dataset and the current criteria alone determine; the Dataset of the
\* run changes only with the uploaded file.
C10_ViewDerivedDatasetKept ==
    [][ /\ \A f \in DOMAIN cache : f \in DOMAIN cache' /\ cache'[f] = cache[f]
        /\ df' # NoData => df' = cache'[uploaded_file']
        /\ (df # NoData /\ df' # NoData /\ df' # df) => uploaded_file' # uploaded_file
        /\ status' = "done" =>
               /\ filtered_df' = FreshView(uploaded_file', criteria')
               /\ \A i \in 1..Len(filtered_df'.rows) :
                      /\ filtered_df'.rows[i] = df'.rows[filtered_df'.rows[i].index + 1]
                      /\ i > 1 => filtered_df'.rows[i - 1].index < filtered_df'.rows[i].index
      ]_vars

\* C10 witness: a second file has been loaded, filters have been changed,
\* and the view holds some rows of the Dataset but not all.
C10_Witness ==
    /\ status = "done"
    /\ Cardinality(DOMAIN cache) >= 2
    /\ ~FiltersUntouched
    /\ filtered_df.rows # <<>>
    /\ Len(filtered_df.rows) < Len(df.rows)

====
